---- MODULE Spec2Model ----
(***************************************************************************)
(* Model of the Literary Soundtrack Generator: the two implementations     *)
(* BookTrack.py (Streamlit app with session state) and book_soundtrack.py  *)
(* (notebook export).  Text is a sequence of one-character strings; a      *)
(* word character is "a" or "b".  A dict is a sequence of [k, v] records   *)
(* in insertion order, as Python dicts keep it.                            *)
(***************************************************************************)
EXTENDS Integers, Sequences, FiniteSets, TLC

VARIABLES
  impl,             \* which of the two source files runs
  \* parse_gemini_analysis
  analysis_text, lines, sections, current_section, ppc, parsed,
  \* search_spotify_tracks
  analysis, max_tracks, search_queries, qi, k, tracks, result, spc,
  issued,           \* the sp.search calls made so far, in order
  warnings,         \* one entry per query that raised
  last_item,        \* the response item the loop body last ran on
  collected,        \* the accumulated list as it was before the final sort
  first_seen,       \* per track id, the first normalized track encountered
  \* main
  pc, book_info, generated, sp, create,
  calls,            \* the stages the current run has invoked, in order
  messages,         \* what the current run has reported to the user
  session,          \* st.session_state of BookTrack.py
  owner,            \* the run that stored each session entry
  displayed,        \* the last script run rendered the results section
  run,              \* pipeline runs started so far
  \* get_book_info
  lpc, keys, strategy,
  requested,        \* the strategies requested so far, in order
  answers,          \* the response each request got
  lookup_result,
  lookup_errors,    \* the errors get_book_info has shown
  \* create_spotify_playlist
  plpc, sp_client, playlist_book, profile, ranked_tracks, playlist_description, track_uris,
  batch_i,
  create_calls,     \* the user_playlist_create calls made, in order
  add_calls,        \* the playlist_add_items calls made, in order
  playlist_items,   \* what the service holds in the playlist
  playlist_url,
  raised            \* the call whose exception the function caught

parseVars == <<analysis_text, lines, sections, current_section, ppc, parsed>>
searchVars == <<analysis, max_tracks, search_queries, qi, k, tracks, result, spc,
                issued, warnings, last_item, collected, first_seen>>
mainVars == <<pc, book_info, generated, sp, create, calls, messages, session, owner,
              displayed, run>>
lookupVars == <<lpc, keys, strategy, requested, answers, lookup_result, lookup_errors>>
playlistVars == <<plpc, sp_client, playlist_book, profile, ranked_tracks, playlist_description,
                  track_uris, batch_i, create_calls, add_calls, playlist_items,
                  playlist_url, raised>>
vars == <<impl, parseVars, searchVars, mainVars, lookupVars, playlistVars>>

Impls == {"BookTrack", "book_soundtrack"}

(* ---------------------------- bounds ----------------------------------- *)
MaxLen == 5          \* length of a raw generated text
MaxTerms == 2        \* terms per list of a well-formed response
MaxQTerms == 4       \* terms per category of a profile given to query building
MaxQueryTracks == 20 \* largest max_tracks given to query building
MaxQueries == 3      \* queries executed by one search
MaxItems == 2        \* items in one search response
MaxIds == 2          \* distinct track ids in the catalog
MaxTracks == 2       \* largest max_tracks given to an executed search
MaxRuns == 2         \* pipeline runs of one session
MaxVolumes == 2      \* items in one lookup response
MaxAuthors == 2      \* authors of a book given to the playlist
MaxDescTerms == 4    \* genres, and moods, of a profile given to the playlist
MaxPlaylistTracks == 101 \* tracks given to the playlist

(* --------------------------- sequence helpers -------------------------- *)
Pos(s, x) == CHOOSE i \in 1..Len(s) : s[i] = x
IsPrefix(s, t) == Len(s) <= Len(t) /\ SubSeq(t, 1, Len(s)) = s
Elems(s) == {s[i] : i \in 1..Len(s)}

(* ------------------------ Python str helpers --------------------------- *)
Alphabet == {"a", " ", ",", ":", "[", "]", "\n"}

IsSpace(c) == c \in {" ", "\n"}

Has(s, c) == \E i \in 1..Len(s) : s[i] = c

IndexOf(s, c) == CHOOSE i \in 1..Len(s) : s[i] = c /\ \A j \in 1..(i-1) : s[j] # c

RECURSIVE LStrip(_)
LStrip(s) == IF s # <<>> /\ IsSpace(Head(s)) THEN LStrip(Tail(s)) ELSE s

RECURSIVE RStrip(_)
RStrip(s) == IF s # <<>> /\ IsSpace(s[Len(s)]) THEN RStrip(SubSeq(s, 1, Len(s)-1)) ELSE s

Strip(s) == RStrip(LStrip(s))

RECURSIVE Split(_, _)
Split(s, sep) ==
  IF Has(s, sep)
  THEN LET i == IndexOf(s, sep)
       IN <<SubSeq(s, 1, i-1)>> \o Split(SubSeq(s, i+1, Len(s)), sep)
  ELSE <<s>>

StripEach(pieces) == [i \in 1..Len(pieces) |-> Strip(pieces[i])]

(* ---------------------------- Python dict ------------------------------ *)
Keys(d) == {d[i].k : i \in 1..Len(d)}

Get(d, key) == d[CHOOSE i \in 1..Len(d) : d[i].k = key].v

Put(d, key, val) ==
  IF key \in Keys(d)
  THEN [i \in 1..Len(d) |-> IF d[i].k = key THEN [k |-> key, v |-> val] ELSE d[i]]
  ELSE Append(d, [k |-> key, v |-> val])

DictEq(d1, d2) == Keys(d1) = Keys(d2) /\ \A key \in Keys(d1) : Get(d1, key) = Get(d2, key)

(* ------------------------ parse_gemini_analysis ------------------------ *)
NoSection == [set |-> FALSE, name |-> <<>>]

\* Faulty variant: the bracket pair is left in place.
StripBracketsKeep(content) == content

StripBrackets(content) ==
  IF content # <<>> /\ Head(content) = "[" /\ content[Len(content)] = "]"
  THEN SubSeq(content, 2, Len(content) - 1)
  ELSE content

\* Faulty variant: the pieces are not trimmed.
SplitItemsNoStrip(content) == Split(content, ",")

SplitItems(content) == StripEach(Split(content, ","))

ParseLine(im, st, rawline) ==
  LET line == Strip(rawline) IN
  IF line = <<>> THEN st
  ELSE IF Has(line, ":")
  THEN LET i == IndexOf(line, ":")
           section_name == Strip(SubSeq(line, 1, i-1))
           content == StripBrackets(Strip(SubSeq(line, i+1, Len(line))))
       IN [sections |-> Put(st.sections, section_name, SplitItems(content)),
           current_section |-> IF im = "BookTrack"
                               THEN [set |-> TRUE, name |-> section_name]
                               ELSE st.current_section]
  ELSE IF im = "BookTrack" /\ st.current_section.set /\ st.current_section.name # <<>>
  THEN LET cur == st.current_section.name
       IN [st EXCEPT !.sections = Put(@, cur, Get(@, cur) \o SplitItems(line))]
  ELSE st

RECURSIVE ParseLines(_, _, _)
ParseLines(im, st, ls) ==
  IF ls = <<>> THEN st ELSE ParseLines(im, ParseLine(im, st, Head(ls)), Tail(ls))

None == [isNone |-> TRUE, sections |-> <<>>]

parse_gemini_analysis(im, text) ==
  IF text = <<>> THEN None
  ELSE [isNone |-> FALSE,
        sections |-> ParseLines(im, [sections |-> <<>>, current_section |-> NoSection],
                                Split(text, "\n")).sections]

Falsy(res) == res.isNone \/ res.sections = <<>>

ParserIdle ==
  /\ analysis_text = <<>>
  /\ lines = <<>>
  /\ sections = <<>>
  /\ current_section = NoSection
  /\ ppc = "idle"
  /\ parsed = None

(* ---------------- canonical serialisation of a Profile ----------------- *)
RECURSIVE Join(_, _)
Join(pieces, sep) ==
  IF pieces = <<>> THEN <<>>
  ELSE IF Len(pieces) = 1 THEN pieces[1]
  ELSE pieces[1] \o sep \o Join(Tail(pieces), sep)

Spaces(n) == [i \in 1..n |-> " "]

\* One `Label: [t1, t2]` line; pad = 1 is the canonical form, pad = 0 has no
\* optional blanks, pad = 2 surrounds every token with blanks.
FormatLine(label, terms, pad) ==
  Spaces(IF pad = 2 THEN 1 ELSE 0) \o label \o Spaces(IF pad = 2 THEN 1 ELSE 0)
  \o <<":">> \o Spaces(pad) \o <<"[">> \o Spaces(IF pad = 2 THEN 1 ELSE 0)
  \o Join(terms, Spaces(IF pad = 2 THEN 1 ELSE 0) \o <<",">> \o Spaces(pad))
  \o Spaces(IF pad = 2 THEN 1 ELSE 0) \o <<"]">>

FormatPad(d, pad) ==
  Join([i \in 1..Len(d) |-> FormatLine(d[i].k, d[i].v, pad)], <<"\n">>)

Format(d) == FormatPad(d, 1)

(* ------------------------- inputs of the parser ------------------------ *)
EmotionalTones == <<"Emotional", " ", "Tones">>
Genres == <<"Genres">>
Moods == <<"Moods">>
TimePeriod == <<"Time", " ", "Period/Cultural", " ", "Context">>
Keywords == <<"Keywords">>
Labels == <<EmotionalTones, Genres, Moods, TimePeriod, Keywords>>

Terms == {<<"a">>, <<"b">>, <<"a", " ", "b">>}
TermLists == UNION {[1..n -> Terms] : n \in 1..MaxTerms}

\* Well-formed five-label profiles: the odd labels carry one list, the even
\* labels another.
WellFormedProfiles ==
  {[i \in 1..5 |-> [k |-> Labels[i], v |-> IF i % 2 = 1 THEN l1 ELSE l2]] :
     l1 \in TermLists, l2 \in TermLists}

WellFormedCases ==
  {[text |-> FormatPad(P, pad), profile |-> P] : P \in WellFormedProfiles, pad \in 0..2}

WellFormedTexts == {c.text : c \in WellFormedCases}

RawTexts == UNION {[1..n -> Alphabet] : n \in 0..MaxLen}

Texts == RawTexts \cup WellFormedTexts

(* ------------------------ search_spotify_tracks ------------------------ *)
\* search_weights, in hundredths.  int(max_tracks * w) is a float product
\* truncated toward zero; for 0 <= max_tracks < 2000 it equals the exact
\* floor((max_tracks * hundredths) / 100).
WeightEmotionalTones == 30
WeightMoods == 30
WeightGenres == 25
WeightKeywords == 15

DefaultMaxTracks == 15

Limit(max, weight) == (max * weight) \div 100

Min(a, b) == IF a < b THEN a ELSE b
Max(a, b) == IF a > b THEN a ELSE b

\* Python s[:n]
Take(s, n) ==
  IF n >= 0 THEN SubSeq(s, 1, Min(n, Len(s))) ELSE SubSeq(s, 1, Max(0, Len(s) + n))

RECURSIVE Concat(_)
Concat(ss) == IF ss = <<>> THEN <<>> ELSE Head(ss) \o Concat(Tail(ss))

Query(terms, limit) == [terms |-> terms, limit |-> limit]

TonesUsed(im, tones) == IF im = "BookTrack" THEN Take(tones, 2) ELSE tones

MoodsUsed(im, moods) == IF im = "BookTrack" THEN Take(moods, 3) ELSE moods

GenreQueries(a, max) ==
  IF Genres \in Keys(a)
  THEN LET g == Get(a, Genres)
       IN [i \in 1..Len(g) |->
             Query(<<"genre:", "\"">> \o g[i] \o <<"\"">>, Limit(max, WeightGenres))]
  ELSE <<>>

ToneGenreQueries(im, a, max) ==
  IF EmotionalTones \in Keys(a) /\ Genres \in Keys(a)
  THEN LET t == TonesUsed(im, Get(a, EmotionalTones))
           g == Take(Get(a, Genres), 2)
       IN Concat([i \in 1..Len(t) |->
                    [j \in 1..Len(g) |->
                       Query(t[i] \o <<" ">> \o g[j], Limit(max, WeightEmotionalTones))]])
  ELSE <<>>

MoodQueries(im, a, max) ==
  IF Moods \in Keys(a)
  THEN LET m == MoodsUsed(im, Get(a, Moods))
       IN [i \in 1..Len(m) |-> Query(m[i], Limit(max, WeightMoods))]
  ELSE <<>>

KeywordQueries(a, max) ==
  IF Keywords \in Keys(a)
  THEN LET w == Get(a, Keywords)
       IN [i \in 1..Len(w) |-> Query(w[i], Limit(max, WeightKeywords))]
  ELSE <<>>

BuildQueries(im, a, max) ==
  GenreQueries(a, max) \o ToneGenreQueries(im, a, max)
  \o MoodQueries(im, a, max) \o KeywordQueries(a, max)

\* A raw item of a search response: id, popularity and the number of entries
\* of item["album"]["images"].  The other fields are copied verbatim and are
\* a function of the id; popularity may differ between two responses.
Popularities == {10, 90}
ImageCounts == {0, 1, 2}
Items == [id : 1..MaxIds, popularity : Popularities, images : ImageCounts]
NoItem == [id |-> 0, popularity |-> 0, images |-> 0]

\* item["album"]["images"][1]["url"] if item["album"]["images"] else ""
\* raises IndexError on a one-entry list.
Raises(im, item) == im = "BookTrack" /\ item.images = 1

Normalize(im, item) ==
  IF im = "BookTrack"
  THEN [id |-> item.id, popularity |-> item.popularity,
        album_image |-> IF item.images = 0 THEN "" ELSE "url"]
  ELSE [id |-> item.id, popularity |-> item.popularity]

InList(s, x) == \E i \in 1..Len(s) : s[i] = x
HasId(s, id) == \E i \in 1..Len(s) : s[i].id = id

AlreadyInList(im, ts, track) ==
  IF im = "BookTrack" THEN HasId(ts, track.id) ELSE InList(ts, track)

AddTrack(im, ts, track) == IF AlreadyInList(im, ts, track) THEN ts ELSE Append(ts, track)

\* list.sort(key=popularity, reverse=True): stable, descending.
\* Faulty variant: an equal popularity is inserted before the earlier one.
RECURSIVE InsertUnstable(_, _)
InsertUnstable(sorted, x) ==
  IF sorted = <<>> THEN <<x>>
  ELSE IF Head(sorted).popularity > x.popularity
       THEN <<Head(sorted)>> \o InsertUnstable(Tail(sorted), x)
       ELSE <<x>> \o sorted

RECURSIVE Insert(_, _)
Insert(sorted, x) ==
  IF sorted = <<>> THEN <<x>>
  ELSE IF Head(sorted).popularity >= x.popularity
       THEN <<Head(sorted)>> \o Insert(Tail(sorted), x)
       ELSE <<x>> \o sorted

RECURSIVE SortByPopularity(_)
SortByPopularity(ts) ==
  IF ts = <<>> THEN <<>>
  ELSE Insert(SortByPopularity(SubSeq(ts, 1, Len(ts) - 1)), ts[Len(ts)])

SearchIdle ==
  /\ analysis = <<>>
  /\ max_tracks = 0
  /\ search_queries = <<>>
  /\ qi = 0
  /\ k = 0
  /\ tracks = <<>>
  /\ result = <<>>
  /\ spc = "idle"
  /\ issued = <<>>
  /\ warnings = <<>>
  /\ last_item = NoItem
  /\ collected = <<>>
  /\ first_seen = <<>>

\* if not sp or not analysis: return []
SearchEarlyReturn ==
  /\ spc = "start"
  /\ analysis = <<>>
  /\ result' = <<>>
  /\ spc' = "done"
  /\ UNCHANGED <<analysis, max_tracks, search_queries, qi, k, tracks,
                 issued, warnings, last_item, collected, first_seen>>
  /\ UNCHANGED <<impl, lookupVars, playlistVars, parseVars, mainVars>>

SearchBuild ==
  /\ spc = "start"
  /\ analysis # <<>>
  /\ tracks' = <<>>
  /\ search_queries' = BuildQueries(impl, analysis, max_tracks)
  /\ spc' = "loop"
  /\ UNCHANGED <<analysis, max_tracks, qi, k, result,
                 issued, warnings, last_item, collected, first_seen>>
  /\ UNCHANGED <<impl, lookupVars, playlistVars, parseVars, mainVars>>

\* sp.search(...) returns a response; the item loop starts.
IssueQuery ==
  /\ spc = "loop"
  /\ qi < Len(search_queries)
  /\ issued' = Append(issued, search_queries[qi + 1])
  /\ k' = 0
  /\ spc' = "items"
  /\ UNCHANGED <<analysis, max_tracks, search_queries, qi, tracks, result,
                 warnings, collected, first_seen>>
  /\ last_item' = NoItem
  /\ UNCHANGED <<impl, lookupVars, playlistVars, parseVars, mainVars>>

Warning(q, ts) == [query |-> q, had |-> Len(ts)]

\* Faulty variant: a raising query ends the whole query loop.
IssueQueryAbort ==
  /\ spc = "loop"
  /\ qi < Len(search_queries)
  /\ issued' = Append(issued, search_queries[qi + 1])
  /\ warnings' = Append(warnings, Warning(qi + 1, tracks))
  /\ qi' = Len(search_queries)
  /\ UNCHANGED <<analysis, max_tracks, search_queries, k, tracks, result, spc,
                 collected, first_seen>>
  /\ last_item' = NoItem
  /\ UNCHANGED <<impl, lookupVars, playlistVars, parseVars, mainVars>>

\* sp.search(...) raises, or its result has no ["tracks"]["items"]: the
\* except clause warns and continues with the next query.
IssueQueryFail ==
  /\ spc = "loop"
  /\ qi < Len(search_queries)
  /\ issued' = Append(issued, search_queries[qi + 1])
  /\ warnings' = Append(warnings, Warning(qi + 1, tracks))
  /\ qi' = qi + 1
  /\ UNCHANGED <<analysis, max_tracks, search_queries, k, tracks, result, spc,
                 collected, first_seen>>
  /\ last_item' = NoItem
  /\ UNCHANGED <<impl, lookupVars, playlistVars, parseVars, mainVars>>

\* One iteration of `for item in results["tracks"]["items"]`.
ProcessItem ==
  /\ spc = "items"
  /\ k < MaxItems
  /\ \E item \in Items :
       \* ids are opaque: they are numbered in order of first appearance
       /\ item.id <= Len(first_seen) + 1
       \* book_soundtrack.py never reads the image list
       /\ impl = "book_soundtrack" => item.images = 2
       /\ last_item' = item
       /\ IF Raises(impl, item)
          THEN /\ warnings' = Append(warnings, Warning(qi + 1, tracks))
               /\ qi' = qi + 1
               /\ spc' = "loop"
               /\ UNCHANGED <<tracks, k, first_seen>>
          ELSE /\ tracks' = AddTrack(impl, tracks, Normalize(impl, item))
               /\ first_seen' = IF HasId(first_seen, item.id) THEN first_seen
                                ELSE Append(first_seen, Normalize(impl, item))
               /\ k' = k + 1
               /\ UNCHANGED <<warnings, qi, spc>>
  /\ UNCHANGED <<analysis, max_tracks, search_queries, result, issued, collected>>
  /\ UNCHANGED <<impl, lookupVars, playlistVars, parseVars, mainVars>>

\* The response has no further item.
EndResponse ==
  /\ spc = "items"
  /\ qi' = qi + 1
  /\ spc' = "loop"
  /\ UNCHANGED <<analysis, max_tracks, search_queries, k, tracks, result,
                 issued, warnings, collected, first_seen>>
  /\ last_item' = NoItem
  /\ UNCHANGED <<impl, lookupVars, playlistVars, parseVars, mainVars>>

\* tracks.sort(...); return tracks[:max_tracks]
Rank ==
  /\ spc = "loop"
  /\ qi = Len(search_queries)
  /\ collected' = tracks
  /\ tracks' = SortByPopularity(tracks)
  /\ result' = Take(tracks', max_tracks)
  /\ spc' = "done"
  /\ UNCHANGED <<analysis, max_tracks, search_queries, qi, k,
                 issued, warnings, first_seen>>
  /\ last_item' = NoItem
  /\ UNCHANGED <<impl, lookupVars, playlistVars, parseVars, mainVars>>

\* One response handled by the body of the query loop: either the call
\* raised, or its items are processed until one raises.
RECURSIVE AddItems(_, _, _)
AddItems(im, ts, items) ==
  IF items = <<>> \/ Raises(im, Head(items)) THEN ts
  ELSE AddItems(im, AddTrack(im, ts, Normalize(im, Head(items))), Tail(items))

RECURSIVE RunQueries(_, _, _)
RunQueries(im, ts, resps) ==
  IF resps = <<>> THEN ts
  ELSE RunQueries(im, IF Head(resps).raised THEN ts ELSE AddItems(im, ts, Head(resps).items),
                  Tail(resps))

\* The whole function, given what sp.search answers to each query in turn.
search_spotify_tracks(im, spOk, a, max, resps) ==
  IF ~spOk \/ a = <<>> THEN <<>>
  ELSE Take(SortByPopularity(RunQueries(im, <<>>, resps)), max)

(* ------------- get_book_info and create_spotify_playlist at rest ------- *)
NoBook == [isNone |-> TRUE]

LookupIdle ==
  /\ lpc = "idle"
  /\ keys = TRUE
  /\ strategy = 1
  /\ requested = <<>>
  /\ answers = <<>>
  /\ lookup_result = NoBook
  /\ lookup_errors = <<>>

PlaylistIdle ==
  /\ plpc = "idle"
  /\ sp_client = "None"
  /\ playlist_book = [title |-> <<>>, authors |-> <<>>]
  /\ profile = <<>>
  /\ ranked_tracks = <<>>
  /\ create_calls = <<>>
  /\ playlist_description = <<>>
  /\ track_uris = <<>>
  /\ batch_i = 0
  /\ add_calls = <<>>
  /\ playlist_items = <<>>
  /\ playlist_url = "None"
  /\ raised = "None"

(* -------------------------------- main --------------------------------- *)
Books == {"book1", "book2"}
NotGenerated == [isNone |-> TRUE, text |-> <<>>]
EmptySession == [book_info |-> "None", analysis |-> <<>>, tracks |-> <<>>]
NoOwner == [book_info |-> 0, analysis |-> 0, tracks |-> 0]

MainIdle ==
  /\ pc = "idle"
  /\ book_info = "None"
  /\ generated = NotGenerated
  /\ sp = "None"
  /\ create = "Yes"
  /\ calls = <<>>
  /\ messages = <<>>
  /\ session = EmptySession
  /\ owner = NoOwner
  /\ displayed = FALSE
  /\ run = 0

\* What the text-generation service may answer in a run.
MainTexts ==
  { <<>>, <<" ">>, <<"a">>, <<"a", ":", "b">>,
    Format(<<[k |-> Genres, v |-> << <<"a">> >>]>>),
    Format(<<[k |-> Genres, v |-> << <<"a">> >>], [k |-> Keywords, v |-> << <<"b">> >>]>>) }

\* What sp.search may answer to one query of a run.
MainResponses ==
  { [raised |-> TRUE, items |-> <<>>],
    [raised |-> FALSE, items |-> <<>>],
    [raised |-> FALSE, items |-> <<[id |-> 1, popularity |-> 90, images |-> 2]>>] }

Report(msg) == messages' = Append(messages, msg)
Invoke(stage) == calls' = Append(calls, stage)

\* BookTrack.py: the form is submitted with a title and an author;
\* book_soundtrack.py: the script runs with both inputs filled.
Submit ==
  /\ pc = "idle"
  /\ run < MaxRuns
  /\ run' = run + 1
  /\ pc' = "lookup"
  /\ calls' = <<>>
  /\ messages' = <<>>
  /\ book_info' = "None"
  /\ generated' = NotGenerated
  /\ parsed' = None
  /\ sp' = "None"
  /\ result' = <<>>
  /\ displayed' = FALSE
  /\ UNCHANGED <<impl, lookupVars, playlistVars, create, session, owner>>
  /\ UNCHANGED <<analysis_text, lines, sections, current_section, ppc>>
  /\ UNCHANGED <<analysis, max_tracks, search_queries, qi, k, tracks, spc,
                 issued, warnings, last_item, collected, first_seen>>

\* book_soundtrack.py, `if not book_title or not book_author`.
MissingInput ==
  /\ pc = "idle"
  /\ impl = "book_soundtrack"
  /\ run < MaxRuns
  /\ run' = run + 1
  /\ calls' = <<>>
  /\ messages' = <<"enter_title_and_author">>
  /\ book_info' = "None"
  /\ generated' = NotGenerated
  /\ parsed' = None
  /\ sp' = "None"
  /\ result' = <<>>
  /\ UNCHANGED <<impl, lookupVars, playlistVars, pc, create, session, owner, displayed>>
  /\ UNCHANGED <<analysis_text, lines, sections, current_section, ppc>>
  /\ UNCHANGED <<analysis, max_tracks, search_queries, qi, k, tracks, spc,
                 issued, warnings, last_item, collected, first_seen>>

LookupStage ==
  /\ pc = "lookup"
  /\ Invoke("lookup")
  /\ \E b \in Books \cup {"None"} :
       /\ book_info' = b
       /\ IF b = "None"
          THEN /\ Report("book_not_found")
               /\ pc' = "idle"
               /\ UNCHANGED <<session, owner>>
          ELSE /\ pc' = "generate"
               /\ UNCHANGED messages
               /\ IF impl = "BookTrack"
                  THEN /\ session' = [session EXCEPT !.book_info = b]
                       /\ owner' = [owner EXCEPT !.book_info = run]
                  ELSE UNCHANGED <<session, owner>>
  /\ UNCHANGED <<impl, lookupVars, playlistVars, parseVars, searchVars, generated, sp, create, displayed, run>>

\* analyze_book_with_gemini returns the text, returns None after a caught
\* error, or (book_soundtrack.py, client construction outside the try) raises.
GenerateStage ==
  /\ pc = "generate"
  /\ Invoke("generate")
  /\ \/ \E t \in MainTexts :
          /\ generated' = [isNone |-> FALSE, text |-> t]
          /\ IF t = <<>>
             THEN Report("analyze_failed") /\ pc' = "idle"
             ELSE UNCHANGED messages /\ pc' = "parse"
     \/ /\ generated' = NotGenerated
        /\ Report("analyze_failed")
        /\ pc' = "idle"
     \/ /\ impl = "book_soundtrack"
        /\ generated' = NotGenerated
        /\ Report("unexpected_error")
        /\ pc' = "idle"
  /\ UNCHANGED <<impl, lookupVars, playlistVars, parseVars, searchVars, book_info, sp, create, session, owner,
                 displayed, run>>

\* Faulty variant: a parse failure is reported but the run goes on.
ParseStageContinue ==
  /\ pc = "parse"
  /\ Invoke("parse")
  /\ parsed' = parse_gemini_analysis(impl, generated.text)
  /\ pc' = "setup"
  /\ IF Falsy(parsed') THEN Report("parse_failed") ELSE UNCHANGED messages
  /\ IF impl = "BookTrack" /\ ~Falsy(parsed')
     THEN /\ session' = [session EXCEPT !.analysis = parsed'.sections]
          /\ owner' = [owner EXCEPT !.analysis = run]
     ELSE UNCHANGED <<session, owner>>
  /\ UNCHANGED <<impl, lookupVars, playlistVars, analysis_text, lines, sections, current_section, ppc, searchVars,
                 book_info, generated, sp, create, displayed, run>>

ParseStage ==
  /\ pc = "parse"
  /\ Invoke("parse")
  /\ parsed' = parse_gemini_analysis(impl, generated.text)
  /\ IF Falsy(parsed')
     THEN /\ Report("parse_failed")
          /\ pc' = "idle"
          /\ UNCHANGED <<session, owner>>
     ELSE /\ pc' = "setup"
          /\ UNCHANGED messages
          /\ IF impl = "BookTrack"
             THEN /\ session' = [session EXCEPT !.analysis = parsed'.sections]
                  /\ owner' = [owner EXCEPT !.analysis = run]
             ELSE UNCHANGED <<session, owner>>
  /\ UNCHANGED <<impl, lookupVars, playlistVars, analysis_text, lines, sections, current_section, ppc, searchVars,
                 book_info, generated, sp, create, displayed, run>>

SetupStage ==
  /\ pc = "setup"
  /\ Invoke("setup")
  /\ \E client \in {"client", "None"} :
       /\ sp' = client
       /\ IF client = "None"
          THEN Report("spotify_failed") /\ pc' = "idle"
          ELSE UNCHANGED messages /\ pc' = "search"
  /\ UNCHANGED <<impl, lookupVars, playlistVars, parseVars, searchVars, book_info, generated, create, session, owner,
                 displayed, run>>

\* tracks = search_spotify_tracks(sp, analysis) with the default max_tracks.
SearchStage ==
  /\ pc = "search"
  /\ Invoke("search")
  /\ LET n == Len(BuildQueries(impl, parsed.sections, DefaultMaxTracks)) IN
     \E resps \in [1..n -> MainResponses] :
       result' = search_spotify_tracks(impl, sp # "None", parsed.sections,
                                       DefaultMaxTracks, resps)
  /\ IF result' = <<>>
     THEN /\ Report("no_tracks")
          /\ pc' = "idle"
          /\ UNCHANGED <<session, owner>>
     ELSE /\ UNCHANGED messages
          /\ IF impl = "BookTrack"
             THEN /\ session' = [session EXCEPT !.tracks = result']
                  /\ owner' = [owner EXCEPT !.tracks = run]
                  /\ pc' = "idle"
             ELSE /\ pc' = "playlist"
                  /\ UNCHANGED <<session, owner>>
  /\ UNCHANGED <<impl, lookupVars, playlistVars, parseVars, book_info, generated, sp, create, displayed, run>>
  /\ UNCHANGED <<analysis, max_tracks, search_queries, qi, k, tracks, spc,
                 issued, warnings, last_item, collected, first_seen>>

\* book_soundtrack.py: the selectbox, then create_spotify_playlist.
PlaylistStage ==
  /\ pc = "playlist"
  /\ \E choice \in {"Yes", "No"} :
       /\ create' = choice
       /\ IF choice = "No"
          THEN /\ Report("thanks")
               /\ UNCHANGED calls
          ELSE /\ Invoke("playlist")
               /\ \E url \in {"url", "None"} :
                    Report(IF url = "None" THEN "playlist_failed" ELSE "success")
  /\ pc' = "idle"
  /\ UNCHANGED <<impl, lookupVars, playlistVars, parseVars, searchVars, book_info, generated, sp, session, owner,
                 displayed, run>>

\* BookTrack.py: a script run without a submission renders the stored
\* results when all three session entries are set.
Display ==
  /\ pc = "idle"
  /\ impl = "BookTrack"
  /\ ~displayed
  /\ session.book_info # "None" /\ session.analysis # <<>> /\ session.tracks # <<>>
  /\ displayed' = TRUE
  /\ UNCHANGED <<impl, lookupVars, playlistVars, parseVars, searchVars, pc, book_info, generated, sp, create, calls,
                 messages, session, owner, run>>

\* BookTrack.py: the "Create Another Soundtrack" button.
CreateAnother ==
  /\ pc = "idle"
  /\ impl = "BookTrack"
  /\ displayed
  /\ session' = EmptySession
  /\ owner' = NoOwner
  /\ displayed' = FALSE
  /\ UNCHANGED <<impl, lookupVars, playlistVars, parseVars, searchVars, pc, book_info, generated, sp, create, calls,
                 messages, run>>

InitMain ==
  /\ impl \in Impls
  /\ ParserIdle
  /\ SearchIdle
  /\ MainIdle
  /\ LookupIdle
  /\ PlaylistIdle

NextMain ==
  \/ Submit \/ MissingInput \/ LookupStage \/ GenerateStage \/ ParseStage
  \/ SetupStage \/ SearchStage \/ PlaylistStage \/ Display \/ CreateAnother

Spec == InitMain /\ [][NextMain]_vars

(* -------------------------- claims on main ----------------------------- *)
StageOrder == <<"lookup", "generate", "parse", "setup", "search", "playlist">>
ErrorMessages == {"book_not_found", "analyze_failed", "unexpected_error", "parse_failed",
                  "spotify_failed", "no_tracks"}

\* C8: when the generated text is empty or has no colon-bearing line, parsing
\* yields no usable Profile, main reports the parse failure and the
\* track-matching stage is never invoked in that run.
C8_ParseFailureReported ==
  (pc = "idle" /\ ~generated.isNone /\ ~Has(generated.text, ":")) =>
    /\ Falsy(parse_gemini_analysis(impl, generated.text))
    /\ InList(messages, "parse_failed")
    /\ ~InList(calls, "search")

\* The stage that failed in the current run, if any.
StageFailed(stage) ==
  \/ stage = "lookup" /\ Len(calls) >= 1 /\ book_info = "None"
  \/ stage = "generate" /\ Len(calls) >= 2 /\ generated.isNone
  \/ stage = "parse" /\ Len(calls) >= 3 /\ Falsy(parsed)
  \/ stage = "setup" /\ Len(calls) >= 4 /\ sp = "None"
  \/ stage = "search" /\ Len(calls) >= 5 /\ result = <<>>

\* C10: in each run the stages are invoked in the order lookup, generation,
\* parsing, client setup, matching, optional playlist creation, each at most
\* once; once a stage has failed no later stage is invoked and a terminal
\* error message has been emitted.
C10_StagesForward ==
  /\ IsPrefix(calls, StageOrder)
  /\ \A stage \in Elems(StageOrder) :
       StageFailed(stage) =>
         /\ pc = "idle"
         /\ calls[Len(calls)] = stage
         /\ messages # <<>>
         /\ messages[Len(messages)] \in ErrorMessages

C10_Witness ==
  /\ pc = "idle"
  /\ calls = <<"lookup", "generate", "parse", "setup">>
  /\ StageFailed("setup")
  /\ messages = <<"spotify_failed">>

\* C16: in BookTrack.py, between script runs, whenever session state holds
\* book_info, analysis and tracks all non-empty, the three were stored by
\* the same pipeline run.
C16_SessionFromOneRun ==
  (impl = "BookTrack" /\ pc = "idle" /\ session.book_info # "None"
     /\ session.analysis # <<>> /\ session.tracks # <<>>) =>
    (owner.book_info = owner.analysis /\ owner.analysis = owner.tracks)

(* ------------------------- inputs of the search ------------------------ *)
Term(prefix, i) == <<prefix \o ToString(i)>>
TermList(prefix, n) == [i \in 1..n |-> Term(prefix, i)]

RECURSIVE DictOf(_)
DictOf(pairs) ==
  IF pairs = <<>> THEN <<>>
  ELSE IF Head(pairs).v = <<>> THEN DictOf(Tail(pairs))
  ELSE <<Head(pairs)>> \o DictOf(Tail(pairs))

\* A profile with e tones, g genres, m moods and w keywords; a category with
\* no term is absent.
Profile(e, g, m, w) ==
  DictOf(<<[k |-> EmotionalTones, v |-> TermList("tone", e)],
           [k |-> Genres, v |-> TermList("genre", g)],
           [k |-> Moods, v |-> TermList("mood", m)],
           [k |-> Keywords, v |-> TermList("word", w)]>>)

QueryProfiles ==
  {Profile(e, g, m, w) : e \in 0..MaxQTerms, g \in 0..MaxQTerms,
                         m \in 0..MaxQTerms, w \in 0..MaxQTerms}

\* Profiles that make 0..MaxQueries queries: keywords only, or one genre and
\* one tone (a genre query and a tone-genre query).
SearchProfiles == {Profile(0, 0, 0, w) : w \in 0..MaxQueries} \cup {Profile(1, 1, 0, 0)}

InitQueries ==
  /\ impl \in Impls
  /\ ParserIdle
  /\ search_queries = <<>>
  /\ analysis \in QueryProfiles
  /\ max_tracks \in 0..MaxQueryTracks
  /\ spc = "start"
  /\ qi = 0 /\ k = 0 /\ tracks = <<>> /\ result = <<>> /\ issued = <<>>
  /\ warnings = <<>> /\ last_item = NoItem /\ collected = <<>> /\ first_seen = <<>>
  /\ MainIdle
  /\ LookupIdle
  /\ PlaylistIdle

NextQueries == SearchEarlyReturn \/ SearchBuild

SpecQueries == InitQueries /\ [][NextQueries]_vars

InitSearch ==
  /\ impl \in Impls
  /\ ParserIdle
  /\ analysis \in SearchProfiles
  /\ max_tracks \in {0, MaxTracks, DefaultMaxTracks}
  /\ spc = "start"
  /\ search_queries = <<>>
  /\ qi = 0 /\ k = 0 /\ tracks = <<>> /\ result = <<>> /\ issued = <<>>
  /\ warnings = <<>> /\ last_item = NoItem /\ collected = <<>> /\ first_seen = <<>>
  /\ MainIdle
  /\ LookupIdle
  /\ PlaylistIdle

NextSearch ==
  \/ SearchEarlyReturn \/ SearchBuild \/ IssueQuery \/ IssueQueryFail
  \/ ProcessItem \/ EndResponse \/ Rank

SpecSearch == InitSearch /\ [][NextSearch]_vars

(* ------------------------- claims on the search ------------------------ *)

\* C1: in both implementations the returned list has at most one entry per
\* track id, and that entry is the first one encountered in query order.
C1_DedupById ==
  (spc = "done" /\ \A i \in 1..Len(search_queries) : search_queries[i].limit >= MaxItems) =>
    /\ \A i, j \in 1..Len(result) : i # j => result[i].id # result[j].id
    /\ \A i \in 1..Len(result) : InList(first_seen, result[i])

\* C2: the result is the first max_tracks entries of a stable descending sort
\* by popularity of the accumulated list: popularities are non-increasing,
\* equal popularities keep their first-seen order, at most max_tracks entries
\* are returned, and no omitted track outranks a returned one.
C2_RankedTopN ==
  (spc = "done" /\ analysis # <<>>) =>
    /\ Len(result) = Min(max_tracks, Len(collected))
    /\ Elems(result) \subseteq Elems(collected)
    /\ \A i, j \in 1..Len(result) : i < j =>
         /\ result[i] # result[j]
         /\ result[i].popularity >= result[j].popularity
         /\ result[i].popularity = result[j].popularity =>
              Pos(collected, result[i]) < Pos(collected, result[j])
    /\ \A x \in Elems(collected) \ Elems(result) : \A y \in Elems(result) :
         /\ x.popularity <= y.popularity
         /\ x.popularity = y.popularity => Pos(collected, y) < Pos(collected, x)

C2_Witness ==
  /\ spc = "done"
  /\ max_tracks = 2
  /\ Len(collected) = 3
  /\ collected[1].popularity = 10
  /\ collected[2].popularity = 90
  /\ collected[3].popularity = 90
  /\ result = <<collected[2], collected[3]>>

\* C3: a failing query is skipped: every generated query is still issued, in
\* order and exactly once, the tracks collected so far are kept and later
\* ones still added, and the function returns the ranked list.
C3_Step ==
  /\ IsPrefix(issued, search_queries) /\ IsPrefix(issued', search_queries')
  /\ warnings' # warnings =>
       /\ spc' = "loop" /\ qi' = qi + 1 /\ qi' = Len(issued')
       /\ tracks' = tracks
  /\ (spc \in {"loop", "items"} /\ spc' # "done") => IsPrefix(tracks, tracks')
  /\ (spc = "loop" /\ spc' = "done") =>
       /\ issued = search_queries
       /\ Elems(tracks') = Elems(tracks)
       /\ result' = Take(tracks', max_tracks)

C3_FailingQuerySkipped == [][C3_Step]_vars

C3_Witness ==
  /\ spc = "done"
  /\ Len(search_queries) = 3
  /\ Len(collected) = 2
  /\ Len(result) = 2
  /\ Len(warnings) = 1
  /\ warnings[1] = Warning(2, <<collected[1]>>)

\* C15: in BookTrack.py every item of a successful response is normalized
\* into a Track whatever the length of its album image list: the image is the
\* second entry when there is one and absent otherwise, the item's track is
\* in the list afterwards and the item loop goes on to the next item.
C15_Step ==
  (impl = "BookTrack" /\ spc = "items" /\ last_item' \in Items) =>
    /\ warnings' = warnings
    /\ spc' = "items"
    /\ k' = k + 1
    /\ HasId(tracks', last_item'.id)
    /\ ~HasId(tracks, last_item'.id) =>
         tracks'[Len(tracks')] =
           [id |-> last_item'.id, popularity |-> last_item'.popularity,
            album_image |-> IF last_item'.images >= 2 THEN "url" ELSE ""]

C15_EveryItemNormalized == [][C15_Step]_vars

\* C4: in both implementations the query sequence is one query per Genres
\* term (limit floor(max_tracks*0.25)), then one per (tone, genre) pair over
\* the first two Emotional Tones and first two Genres (floor(max_tracks*0.3)),
\* then one per term of the first three Moods (floor(max_tracks*0.3)), then
\* one per Keywords term (floor(max_tracks*0.15)); an absent category
\* contributes nothing.
Category(a, label) == IF label \in Keys(a) THEN Get(a, label) ELSE <<>>

ClaimedQueries(a, max) ==
  LET g == Category(a, Genres)
      t == Take(Category(a, EmotionalTones), 2)
      g2 == Take(g, 2)
      m == Take(Category(a, Moods), 3)
      w == Category(a, Keywords)
  IN [i \in 1..Len(g) |->
        Query(<<"genre:", "\"">> \o g[i] \o <<"\"">>, (max * 25) \div 100)]
     \o [n \in 1..(Len(t) * Len(g2)) |->
           Query(t[((n - 1) \div Len(g2)) + 1] \o <<" ">> \o g2[((n - 1) % Len(g2)) + 1],
                 (max * 30) \div 100)]
     \o [i \in 1..Len(m) |-> Query(m[i], (max * 30) \div 100)]
     \o [i \in 1..Len(w) |-> Query(w[i], (max * 15) \div 100)]

C4_QuerySequence ==
  spc = "loop" => search_queries = ClaimedQueries(analysis, max_tracks)

(* ------------------- parse_gemini_analysis, stepwise ------------------- *)
InitParse ==
  /\ impl \in Impls
  /\ analysis_text \in Texts
  /\ lines = <<>>
  /\ sections = <<>>
  /\ current_section = NoSection
  /\ ppc = "start"
  /\ parsed = None
  /\ SearchIdle
  /\ MainIdle
  /\ LookupIdle
  /\ PlaylistIdle

ParseEmpty ==
  /\ ppc = "start"
  /\ analysis_text = <<>>
  /\ parsed' = None
  /\ ppc' = "done"
  /\ UNCHANGED <<impl, lookupVars, playlistVars, analysis_text, lines, sections, current_section>>
  /\ UNCHANGED <<searchVars, mainVars>>

ParseBegin ==
  /\ ppc = "start"
  /\ analysis_text # <<>>
  /\ lines' = Split(analysis_text, "\n")
  /\ sections' = <<>>
  /\ current_section' = NoSection
  /\ ppc' = "loop"
  /\ UNCHANGED <<impl, lookupVars, playlistVars, analysis_text, parsed>>
  /\ UNCHANGED <<searchVars, mainVars>>

ParseStep ==
  /\ ppc = "loop"
  /\ lines # <<>>
  /\ LET st == ParseLine(impl, [sections |-> sections,
                                current_section |-> current_section], Head(lines))
     IN /\ sections' = st.sections
        /\ current_section' = st.current_section
  /\ lines' = Tail(lines)
  /\ UNCHANGED <<impl, lookupVars, playlistVars, analysis_text, ppc, parsed>>
  /\ UNCHANGED <<searchVars, mainVars>>

ParseReturn ==
  /\ ppc = "loop"
  /\ lines = <<>>
  /\ parsed' = [isNone |-> FALSE, sections |-> sections]
  /\ ppc' = "done"
  /\ UNCHANGED <<impl, lookupVars, playlistVars, analysis_text, lines, sections, current_section>>
  /\ UNCHANGED <<searchVars, mainVars>>

NextParse == ParseEmpty \/ ParseBegin \/ ParseStep \/ ParseReturn

SpecParse == InitParse /\ [][NextParse]_vars

(* ------------------------- claims on the parser ------------------------ *)
AllTerms(d) == UNION {{d[i].v[j] : j \in 1..Len(d[i].v)} : i \in 1..Len(d)}

\* The lines the loop has already consumed, and the category established by
\* the last colon-bearing one among them.
AllLines == Split(analysis_text, "\n")
Processed == SubSeq(AllLines, 1, Len(AllLines) - Len(lines))
ColonIdx == {i \in 1..Len(Processed) : Has(Processed[i], ":")}
LastColonLine == Strip(Processed[CHOOSE i \in ColonIdx : \A j \in ColonIdx : j <= i])
LastSectionName == Strip(SubSeq(LastColonLine, 1, IndexOf(LastColonLine, ":") - 1))

\* C5: every element of every list of the returned Profile is a trimmed,
\* non-empty string (empty pieces of the comma split are dropped).
C5_TermsTrimmedNonEmpty ==
  (ppc = "done" /\ ~parsed.isNone) =>
    \A t \in AllTerms(parsed.sections) : t # <<>> /\ Strip(t) = t

\* C6: a response made of exactly the five expected labels, each a line
\* `Label: [t1, t2, ...]` with non-empty terms, parses to a mapping with
\* exactly those five keys, each mapped to its terms, trimmed, in source
\* order, the one surrounding bracket pair removed.
C6_WellFormedParse ==
  (ppc = "done" /\ analysis_text \in WellFormedTexts) =>
    \A c \in WellFormedCases :
      analysis_text = c.text =>
        /\ ~parsed.isNone
        /\ Len(parsed.sections) = 5
        /\ Keys(parsed.sections) = {Labels[i] : i \in 1..5}
        /\ DictEq(parsed.sections, c.profile)

C6_Witness ==
  /\ ppc = "done"
  /\ analysis_text \in WellFormedTexts
  /\ analysis_text[1] = " "
  /\ ~parsed.isNone
  /\ Genres \in Keys(parsed.sections)
  /\ Get(parsed.sections, Genres) = << <<"a", " ", "b">>, <<"a">> >>

\* C7: round trip: writing a returned, non-empty Profile back as one
\* `Label: [a, b, c]` line per category and parsing it again gives an equal
\* Profile (same keys, same lists in the same order).
C7_RoundTrip ==
  (ppc = "done" /\ ~Falsy(parsed)) =>
    LET again == parse_gemini_analysis(impl, Format(parsed.sections))
    IN ~again.isNone /\ DictEq(again.sections, parsed.sections)

C7_Witness ==
  /\ ppc = "done"
  /\ ~Falsy(parsed)
  /\ analysis_text # Format(parsed.sections)
  /\ \E i \in 1..Len(parsed.sections) :
       /\ parsed.sections[i].k # <<>>
       /\ Len(parsed.sections[i].v) >= 2
       /\ parsed.sections[i].v[1] # parsed.sections[i].v[2]

\* C9: in both implementations a non-blank colon-less line that follows a
\* colon-bearing line appends its comma-separated trimmed pieces, in order, to
\* the list of the most recently established category and changes no other
\* list; before any colon-bearing line it is ignored.
C9_Continuation ==
  [][(ppc = "loop" /\ lines # <<>> /\ lines' = Tail(lines)) =>
       LET line == Strip(Head(lines)) IN
       (line # <<>> /\ ~Has(line, ":")) =>
         IF ColonIdx # {}
         THEN sections' = Put(sections, LastSectionName,
                              Get(sections, LastSectionName) \o SplitItems(line))
         ELSE sections' = sections]_vars

(* ---------------------------- get_book_info ---------------------------- *)
\* dict.get(key, default) on a volumeInfo field that may be missing
Some(x) == [present |-> TRUE, value |-> x]
NoStr == [present |-> FALSE, value |-> ""]
NoList == [present |-> FALSE, value |-> <<>>]
GetOr(field, default) == IF field.present THEN field.value ELSE default

\* The volumeInfo objects the catalog may return.
Volumes ==
  { [title |-> Some("T1"), authors |-> Some(<<"A1">>), description |-> Some("D1"),
     thumbnail |-> Some("U1")],
    [title |-> Some("T2"), authors |-> NoList, description |-> NoStr,
     thumbnail |-> NoStr],
    [title |-> NoStr, authors |-> Some(<<"A1", "A2">>), description |-> Some("D2"),
     thumbnail |-> NoStr] }

RECURSIVE SeqsUpTo(_, _)
SeqsUpTo(S, n) ==
  IF n = 0 THEN {<<>>}
  ELSE LET shorter == SeqsUpTo(S, n - 1)
       IN shorter \cup {Append(s, x) : s \in {t \in shorter : Len(t) = n - 1}, x \in S}

\* What one request to the volumes endpoint may bring: the transport raises,
\* an error status, a body that is not JSON, or a JSON body with its items.
LookupResponses ==
  [kind : {"network", "status", "malformed"}, items : {<<>>}]
    \cup [kind : {"ok"}, items : SeqsUpTo(Volumes, MaxVolumes)]

search_strategies(im) ==
  IF im = "BookTrack" THEN <<"intitle_inauthor">>
  ELSE <<"basic_langRestrict_id", "exact_quoted", "relaxed_intitle_inauthor">>

BookRecord(im, book) ==
  IF im = "BookTrack"
  THEN [isNone |-> FALSE,
        title |-> GetOr(book.title, "Unknown Title"),
        authors |-> GetOr(book.authors, <<"Unknown Author">>),
        summary |-> GetOr(book.description, "No description available."),
        thumbnail |-> GetOr(book.thumbnail, "")]
  ELSE [isNone |-> FALSE,
        title |-> GetOr(book.title, "Unknown Title"),
        authors |-> GetOr(book.authors, <<"Unknown Author">>),
        summary |-> GetOr(book.description, "No description available.")]

\* BookTrack.py: load_api_keys returned None.
LookupNoKeys ==
  /\ lpc = "start"
  /\ ~keys
  /\ lookup_result' = NoBook
  /\ lpc' = "done"
  /\ UNCHANGED <<keys, strategy, requested, answers, lookup_errors>>
  /\ UNCHANGED <<parseVars, searchVars, mainVars, playlistVars, impl>>

\* One request and everything the code does with its response.
LookupRequest ==
  /\ lpc = "start"
  /\ keys
  /\ strategy <= Len(search_strategies(impl))
  /\ \E resp \in LookupResponses :
       /\ requested' = Append(requested, search_strategies(impl)[strategy])
       /\ answers' = Append(answers, resp)
       /\ IF resp.kind = "ok" /\ resp.items # <<>>
          THEN /\ lookup_result' = BookRecord(impl, resp.items[1])
               /\ lpc' = "done"
               /\ UNCHANGED <<strategy, lookup_errors>>
          ELSE IF impl = "BookTrack"
          THEN /\ lookup_result' = NoBook
               /\ lpc' = "done"
               /\ lookup_errors' =
                    IF resp.kind = "ok" THEN lookup_errors
                    ELSE Append(lookup_errors, "Error fetching book info")
               /\ UNCHANGED strategy
          ELSE /\ strategy' = strategy + 1
               /\ lookup_errors' =
                    IF resp.kind = "ok" THEN lookup_errors
                    ELSE Append(lookup_errors, resp.kind)
               /\ UNCHANGED <<lookup_result, lpc>>
  /\ UNCHANGED keys
  /\ UNCHANGED <<parseVars, searchVars, mainVars, playlistVars, impl>>

\* book_soundtrack.py: the loop over the strategies ran out, `return None`.
LookupExhausted ==
  /\ lpc = "start"
  /\ strategy > Len(search_strategies(impl))
  /\ lookup_result' = NoBook
  /\ lpc' = "done"
  /\ UNCHANGED <<keys, strategy, requested, answers, lookup_errors>>
  /\ UNCHANGED <<parseVars, searchVars, mainVars, playlistVars, impl>>

InitLookup ==
  /\ impl \in Impls
  /\ ParserIdle
  /\ SearchIdle
  /\ MainIdle
  /\ PlaylistIdle
  /\ lpc = "start"
  /\ keys \in BOOLEAN
  /\ impl = "book_soundtrack" => keys
  /\ strategy = 1
  /\ requested = <<>>
  /\ answers = <<>>
  /\ lookup_result = NoBook
  /\ lookup_errors = <<>>

NextLookup == LookupNoKeys \/ LookupRequest \/ LookupExhausted

SpecLookup == InitLookup /\ [][NextLookup]_vars

(* -------------------------- claims on the lookup ----------------------- *)
HasItems(resp) == resp.kind = "ok" /\ resp.items # <<>>
ZeroItems(resp) == resp.kind = "ok" /\ resp.items = <<>>

\* The strategies are requested in their fixed order, and a record returned
\* is built from the first item of the first response that had items, which
\* is the last request made.
FirstStrategyWins ==
  /\ requested = Take(search_strategies(impl), Len(requested))
  /\ Len(answers) = Len(requested)
  /\ \A j \in 1..Len(answers) : HasItems(answers[j]) =>
       /\ j = Len(answers)
       /\ lpc = "done"
       /\ lookup_result = BookRecord(impl, answers[j].items[1])
  /\ (lpc = "done" /\ ~lookup_result.isNone) =>
       (answers # <<>> /\ HasItems(answers[Len(answers)]))

\* C11: with the API keys loaded, get_book_info requests its strategies in
\* their fixed order, returns the record built from the first item of the
\* first strategy whose response has an item, requests nothing after it, and
\* returns not-found only when every strategy has returned zero items.
C11_FirstMatchOrNotFound ==
  keys =>
    /\ FirstStrategyWins
    /\ (lpc = "done" /\ lookup_result.isNone) =>
         /\ Len(answers) = Len(search_strategies(impl))
         /\ \A j \in 1..Len(answers) : ZeroItems(answers[j])

\* C12: a response with a non-success status or a malformed payload ends
\* get_book_info: it is the last request made, no record is returned, and the
\* outcome (the value returned with the errors shown) differs from the
\* not-found outcome, which is None with no error shown.
C12_UpstreamErrorTerminal ==
  \A j \in 1..Len(answers) : answers[j].kind \in {"status", "malformed"} =>
    /\ j = Len(answers)
    /\ lpc = "done"
    /\ lookup_result.isNone
    /\ lookup_errors # <<>>

(* ------------------------ create_spotify_playlist ---------------------- *)
BatchSize == 50
DescriptionLimit == 300
DescriptionTerms == 3

\* Python s[a:b] for 0 <= a <= b
SliceSkip(s, a, b) == SubSeq(s, a + 2, Min(b, Len(s)))
Slice(s, a, b) == SubSeq(s, a + 1, Min(b, Len(s)))

\* playlist_description[:300]
TruncateNone(s) == s
Truncate(s) == Take(s, DescriptionLimit)

\* analysis.get(key): None when the key is missing
Truthy(d, key) == key \in Keys(d) /\ Get(d, key) # <<>>

description_elements(a) ==
  (IF Truthy(a, Genres)
   THEN << <<"G", "e", "n", "r", "e", "s", ":", " ">>
           \o Join(Take(Get(a, Genres), DescriptionTerms), <<",", " ">>) >>
   ELSE <<>>)
  \o
  (IF Truthy(a, Moods)
   THEN << <<"M", "o", "o", "d", "s", ":", " ">>
           \o Join(Take(Get(a, Moods), DescriptionTerms), <<",", " ">>) >>
   ELSE <<>>)

Compose(b, a) ==
  <<"A", " ", "c", "u", "r", "a", "t", "e", "d", " ", "s", "o", "u", "n", "d",
    "t", "r", "a", "c", "k", " ", "f", "o", "r", " ">>
  \o b.title \o <<" ", "b", "y", " ">> \o Join(b.authors, <<",", " ">>)
  \o <<".", " ">> \o Join(description_elements(a), <<" ", "|", " ">>)

\* Inputs: a title of n characters, authors "A1".."An", terms "g1".., "m1"..
TitleOf(n) == [j \in 1..n |-> "t"]
AuthorsOf(n) == [j \in 1..n |-> <<"A", ToString(j)>>]
TermsOf(c, n) == [j \in 1..n |-> <<c, ToString(j)>>]
TitleLengths == {1, 228, 229, 230, 260}
PlaylistBooks ==
  {[title |-> TitleOf(n), authors |-> AuthorsOf(m)] : n \in TitleLengths, m \in 1..MaxAuthors}
PlaylistProfiles ==
  {DictOf(<<[k |-> Genres, v |-> TermsOf("g", g)], [k |-> Moods, v |-> TermsOf("m", m)]>>) :
     g \in 0..MaxDescTerms, m \in 0..MaxDescTerms}
    \cup {<<[k |-> Genres, v |-> <<>>], [k |-> Moods, v |-> TermsOf("m", 1)]>>}
RankedTracks(n) == [j \in 1..n |-> [uri |-> j]]

\* `if not sp or not tracks: return None`
PlaylistEarlyReturn ==
  /\ plpc = "start"
  /\ sp_client = "None" \/ ranked_tracks = <<>>
  /\ playlist_url' = "None"
  /\ plpc' = "done"
  /\ UNCHANGED <<sp_client, playlist_book, profile, ranked_tracks, create_calls,
                 playlist_description, track_uris, batch_i, add_calls,
                 playlist_items, raised>>
  /\ UNCHANGED <<parseVars, searchVars, mainVars, lookupVars, impl>>

\* sp.current_user() raises.
PlaylistUserFails ==
  /\ plpc = "start"
  /\ sp_client # "None" /\ ranked_tracks # <<>>
  /\ raised' = "current_user"
  /\ playlist_url' = "None"
  /\ plpc' = "done"
  /\ UNCHANGED <<sp_client, playlist_book, profile, ranked_tracks, create_calls,
                 playlist_description, track_uris, batch_i, add_calls, playlist_items>>
  /\ UNCHANGED <<parseVars, searchVars, mainVars, lookupVars, impl>>

\* The description is composed and user_playlist_create is called with its
\* first 300 characters; the call returns the playlist or raises.
PlaylistCreate ==
  /\ plpc = "start"
  /\ sp_client # "None" /\ ranked_tracks # <<>>
  /\ playlist_description' = Compose(playlist_book, profile)
  /\ \E ok \in BOOLEAN :
       /\ create_calls' =
            Append(create_calls,
                   [description |-> Truncate(playlist_description'), public |-> TRUE,
                    ok |-> ok])
       /\ IF ok
          THEN /\ track_uris' = [j \in 1..Len(ranked_tracks) |-> ranked_tracks[j].uri]
               /\ batch_i' = 0
               /\ plpc' = "batches"
               /\ UNCHANGED <<playlist_url, raised>>
          ELSE /\ raised' = "user_playlist_create"
               /\ playlist_url' = "None"
               /\ plpc' = "done"
               /\ UNCHANGED <<track_uris, batch_i>>
  /\ UNCHANGED <<sp_client, playlist_book, profile, ranked_tracks, add_calls, playlist_items>>
  /\ UNCHANGED <<parseVars, searchVars, mainVars, lookupVars, impl>>

\* One pass of `for i in range(0, len(track_uris), batch_size)`.
PlaylistAddBatch ==
  /\ plpc = "batches"
  /\ batch_i < Len(track_uris)
  /\ LET batch == Slice(track_uris, batch_i, batch_i + BatchSize)
     IN \E ok \in BOOLEAN :
          /\ add_calls' = Append(add_calls, [batch |-> batch, ok |-> ok])
          /\ IF ok
             THEN /\ playlist_items' = playlist_items \o batch
                  /\ batch_i' = batch_i + BatchSize
                  /\ UNCHANGED <<plpc, playlist_url, raised>>
             ELSE /\ raised' = "playlist_add_items"
                  /\ playlist_url' = "None"
                  /\ plpc' = "done"
                  /\ UNCHANGED <<playlist_items, batch_i>>
  /\ UNCHANGED <<sp_client, playlist_book, profile, ranked_tracks, create_calls,
                 playlist_description, track_uris>>
  /\ UNCHANGED <<parseVars, searchVars, mainVars, lookupVars, impl>>

\* The loop ran out: `return playlist["external_urls"]["spotify"]`.
PlaylistReturn ==
  /\ plpc = "batches"
  /\ batch_i >= Len(track_uris)
  /\ playlist_url' = "url"
  /\ plpc' = "done"
  /\ UNCHANGED <<sp_client, playlist_book, profile, ranked_tracks, create_calls,
                 playlist_description, track_uris, batch_i, add_calls,
                 playlist_items, raised>>
  /\ UNCHANGED <<parseVars, searchVars, mainVars, lookupVars, impl>>

\* The track counts exercise the batches; the books and profiles exercise the
\* description.  Neither depends on the other in the code.
InitPlaylist ==
  /\ impl = "book_soundtrack"
  /\ ParserIdle
  /\ SearchIdle
  /\ MainIdle
  /\ LookupIdle
  /\ plpc = "start"
  /\ sp_client \in {"None", "client"}
  /\ \/ /\ playlist_book = [title |-> TitleOf(1), authors |-> AuthorsOf(1)]
        /\ profile = <<>>
        /\ ranked_tracks \in {RankedTracks(n) : n \in 0..MaxPlaylistTracks}
     \/ /\ playlist_book \in PlaylistBooks
        /\ profile \in PlaylistProfiles
        /\ ranked_tracks = RankedTracks(1)
  /\ create_calls = <<>>
  /\ playlist_description = <<>>
  /\ track_uris = <<>>
  /\ batch_i = 0
  /\ add_calls = <<>>
  /\ playlist_items = <<>>
  /\ playlist_url = "None"
  /\ raised = "None"

NextPlaylist ==
  \/ PlaylistEarlyReturn \/ PlaylistUserFails \/ PlaylistCreate
  \/ PlaylistAddBatch \/ PlaylistReturn

SpecPlaylist == InitPlaylist /\ [][NextPlaylist]_vars

(* ------------------------- claims on the playlist ---------------------- *)
RankedUris == [j \in 1..Len(ranked_tracks) |-> ranked_tracks[j].uri]
BatchesSent == Concat([j \in 1..Len(add_calls) |-> add_calls[j].batch])
AddedOk(c) == c.ok
BatchesAdded ==
  LET done == SelectSeq(add_calls, AddedOk)
  IN Concat([j \in 1..Len(done) |-> done[j].batch])

\* C13: the playlist is created at most once and before any batch; the
\* batches sent are consecutive pieces of at most 50 URIs whose concatenation
\* is a prefix of the ranked URI list, and the whole list once a URL is
\* returned; a batch call that fails is the last one sent, the playlist keeps
\* the batches added before it, and None is returned instead of the URL.
C13_BatchesInRankedOrder ==
  /\ Len(create_calls) <= 1
  /\ add_calls # <<>> => (create_calls # <<>> /\ create_calls[1].ok)
  /\ \A j \in 1..Len(add_calls) :
       /\ Len(add_calls[j].batch) \in 1..BatchSize
       /\ ~add_calls[j].ok =>
            (j = Len(add_calls) /\ plpc = "done" /\ playlist_url = "None")
  /\ IsPrefix(BatchesSent, RankedUris)
  /\ playlist_items = BatchesAdded
  /\ playlist_url = "url" => (BatchesSent = RankedUris /\ playlist_items = RankedUris)

\* The third batch fails after two full batches were added.
C13_Witness ==
  /\ plpc = "done"
  /\ Len(add_calls) = 3
  /\ ~add_calls[3].ok
  /\ playlist_items = SubSeq(RankedUris, 1, 2 * BatchSize)
  /\ playlist_url = "None"

FirstThree(key) ==
  IF key \in Keys(profile) THEN SubSeq(Get(profile, key), 1, Min(DescriptionTerms, Len(Get(profile, key))))
  ELSE <<>>

Composed ==
  LET genres == IF FirstThree(Genres) = <<>> THEN <<>>
                ELSE << <<"G", "e", "n", "r", "e", "s", ":", " ">>
                        \o Join(FirstThree(Genres), <<",", " ">>) >>
      moods == IF FirstThree(Moods) = <<>> THEN <<>>
               ELSE << <<"M", "o", "o", "d", "s", ":", " ">>
                       \o Join(FirstThree(Moods), <<",", " ">>) >>
  IN <<"A", " ", "c", "u", "r", "a", "t", "e", "d", " ", "s", "o", "u", "n", "d",
       "t", "r", "a", "c", "k", " ", "f", "o", "r", " ">>
     \o playlist_book.title \o <<" ", "b", "y", " ">>
     \o Join(playlist_book.authors, <<",", " ">>) \o <<".", " ">>
     \o Join(genres \o moods, <<" ", "|", " ">>)

\* C14: the description sent to user_playlist_create is the prefix of length
\* min(300, n) of the composed description of length n, which is built from
\* the whole title and authors and at most the first 3 Genres and the first 3
\* Moods; it never exceeds 300 characters, and a composition of any length
\* reaches the service once current_user has answered.
C14_DescriptionPrefix ==
  /\ \A j \in 1..Len(create_calls) :
       /\ playlist_description = Composed
       /\ Len(create_calls[j].description) = Min(DescriptionLimit, Len(Composed))
       /\ IsPrefix(create_calls[j].description, Composed)
       /\ Len(create_calls[j].description) <= DescriptionLimit
  /\ (plpc \in {"batches", "done"} /\ sp_client # "None" /\ ranked_tracks # <<>>
        /\ raised # "current_user") => Len(create_calls) = 1

\* A composition longer than 300 characters, from a profile with more than
\* three genres, whose playlist was created and filled.
C14_Witness ==
  /\ playlist_url = "url"
  /\ Len(playlist_description) > DescriptionLimit
  /\ Genres \in Keys(profile) /\ Len(Get(profile, Genres)) > DescriptionTerms
  /\ Len(create_calls) = 1 /\ Len(create_calls[1].description) = DescriptionLimit

====
